---- MODULE Spec2Model ----
(***************************************************************************)
(* claippy: the Conversation / workspace-context state machine             *)
(* (src/src/model.rs), the query handler that consumes the model's chunk   *)
(* stream (src/src/command.rs, handle_query) and the artifact segmenter    *)
(* (src/src/command.rs, parse_message_parts), and the commands of the      *)
(* command line working on the conversation files (src/src/db.rs).         *)
(*                                                                         *)
(* Strings are sequences of symbols.  A symbol is one character ("<", ">", *)
(* "/", a quote, a blank, a newline, a letter) or one indivisible word of  *)
(* a literal the regexes look for ("Claippy" and "Artifact", the two       *)
(* halves of the marker name; "identifier=" and "language=").              *)
(***************************************************************************)
EXTENDS Integers, Sequences, FiniteSets, TLC

VARIABLES
    conversation,   \* the Conversation object: unseen_context, seen_context, messages
    result,         \* Result of the last operation / command: "None", "Ok", "Err"
    last,           \* the last operation: its name, its arguments, the state before it
    db,             \* the store: the persisted current conversation
    pc,             \* where handle_query stands: "idle", "streaming"
    query_response, \* the text the model has still to send, as the stream holds it
    full_content,   \* handle_query: the text of the completed lines
    current_line,   \* handle_query: the line being received
    delivered,      \* the text of the chunks handle_query has received, in order
    split_marker,   \* whether a chunk has ended inside a marker name
    seg_pc,         \* segmenter round trip: which conversion has been applied
    seg_text,       \* segmenter round trip: a literal response / payload text
    seg_parts,      \* segmenter round trip: a sequence of message parts
    seg_input,      \* segmenter round trip: the input the run started from
    files,          \* the .claippy directory: the conversation files by id
    current         \* the .claippy/current symlink: the id it points to, if any

vars == <<conversation, result, last, db, pc, query_response, full_content,
          current_line, delivered, split_marker, seg_pc, seg_text, seg_parts,
          seg_input, files, current>>

----------------------------------------------------------------------------
\* Symbols

LT == "<"
GT == ">"
SLASH == "/"
QUOTE == "\""
SPACE == " "
NEWLINE == "\n"
IDENTIFIER_KEY == "identifier="
LANGUAGE_KEY == "language="

\* const CLAIPPY_ARTIFACT: &str = "ClaippyArtifact", in two symbols so that a
\* chunk boundary can fall inside the name.
CLAIPPY_ARTIFACT == <<"Claippy", "Artifact">>

\* Option<T>: the empty sequence is None, a one-element sequence is Some(v).
None == <<>>
Some(v) == <<v>>

Min(S) == CHOOSE x \in S : \A y \in S : x <= y

\* \s of the regex crate
IsWhitespace(c) == c \in {SPACE, NEWLINE, "\t"}

\* Whether the literal lit occurs in s at (1-based) index i.
StartsWithAt(s, lit, i) ==
    /\ i >= 1
    /\ i + Len(lit) - 1 <= Len(s)
    /\ \A k \in 1..Len(lit) : s[i + k - 1] = lit[k]

\* The first index >= from at which lit occurs in s, 0 when there is none.
Find(s, lit, from) ==
    LET hits == {i \in from..Len(s) : StartsWithAt(s, lit, i)}
    IN  IF hits = {} THEN 0 ELSE Min(hits)

\* The greedy \s* of the artifact regex: s without its leading whitespace.
RECURSIVE SkipWhitespace(_)
SkipWhitespace(s) ==
    IF s # <<>> /\ IsWhitespace(Head(s)) THEN SkipWhitespace(Tail(s)) ELSE s

----------------------------------------------------------------------------
\* parse_message_parts (src/src/command.rs)

OpenLiteral == <<LT>> \o CLAIPPY_ARTIFACT
CloseLiteral == <<LT, SLASH>> \o CLAIPPY_ARTIFACT \o <<GT>>

Markdown(text) == [type |-> "Markdown", text |-> text]
Artifact(identifier, language, content) ==
    [type |-> "Artifact", identifier |-> identifier, language |-> language,
     content |-> content]

UNKNOWN == <<"unknown">>

\* The artifact regex with an optional closing marker: an opening marker that
\* is never closed takes the rest of the text as its content.
ArtifactMatchAt_unterminated(s, i) ==
    IF ~StartsWithAt(s, OpenLiteral, i) THEN None
    ELSE LET a  == i + Len(OpenLiteral)
             gt == Find(s, <<GT>>, a)
         IN  IF gt = 0 THEN None
             ELSE LET cl == Find(s, CloseLiteral, gt + 1)
                  IN  Some([start   |-> i - 1,
                            end     |-> IF cl = 0 THEN Len(s)
                                        ELSE cl + Len(CloseLiteral) - 1,
                            body_start |-> gt,
                            attrs   |-> SkipWhitespace(SubSeq(s, a, gt - 1)),
                            content |-> IF cl = 0 THEN SubSeq(s, gt + 1, Len(s))
                                        ELSE SubSeq(s, gt + 1, cl - 1)])

\* (?ms)<ClaippyArtifact\s*([^>]*?)>(.*?)</ClaippyArtifact> tried at index i:
\* the name, then everything up to the first ">" (group 1, after the
\* whitespace \s* takes), then everything up to the first closing marker
\* (group 2).  None when the regex does not match at i.
ArtifactMatchAt(s, i) ==
    IF ~StartsWithAt(s, OpenLiteral, i) THEN None
    ELSE LET a  == i + Len(OpenLiteral)
             gt == Find(s, <<GT>>, a)
         IN  IF gt = 0 THEN None
             ELSE LET cl == Find(s, CloseLiteral, gt + 1)
                  IN  IF cl = 0 THEN None
                      ELSE Some([start   |-> i - 1,
                                 end     |-> cl + Len(CloseLiteral) - 1,
                                 body_start |-> gt,
                                 attrs   |-> SkipWhitespace(SubSeq(s, a, gt - 1)),
                                 content |-> SubSeq(s, gt + 1, cl - 1)])

\* The next capture of captures_iter: the leftmost match that starts at byte
\* offset last_end or later.
artifact_regex(s, last_end) ==
    LET starts == {i \in (last_end + 1)..Len(s) : ArtifactMatchAt(s, i) # None}
    IN  IF starts = {} THEN None ELSE ArtifactMatchAt(s, Min(starts))

\* key"(.+)" instead of key"([^"]+)": the value runs to the last quote.
attribute_regex_greedy(key, attrs) ==
    LET quotes == {k \in 1..Len(attrs) : attrs[k] = QUOTE}
        hits == {j \in 1..Len(attrs) :
                    /\ j + 3 <= Len(attrs)
                    /\ attrs[j] = key
                    /\ attrs[j + 1] = QUOTE
                    /\ \E k \in quotes : k >= j + 3}
    IN  IF hits = {} THEN None
        ELSE LET j == Min(hits)
                 e == CHOOSE k \in quotes : \A m \in quotes : m <= k
             IN  Some(SubSeq(attrs, j + 2, e - 1))

\* key"([^"]+)" searched in attrs: the leftmost key followed by a quote, one or
\* more non-quote symbols and a quote.  Some(group 1) or None.
attribute_regex(key, attrs) ==
    LET hits == {j \in 1..Len(attrs) :
                    /\ j + 3 <= Len(attrs)
                    /\ attrs[j] = key
                    /\ attrs[j + 1] = QUOTE
                    /\ attrs[j + 2] # QUOTE
                    /\ Find(attrs, <<QUOTE>>, j + 3) # 0}
    IN  IF hits = {} THEN None
        ELSE LET j == Min(hits)
             IN  Some(SubSeq(attrs, j + 2, Find(attrs, <<QUOTE>>, j + 3) - 1))

identifier_regex(attrs) == attribute_regex(IDENTIFIER_KEY, attrs)
language_regex(attrs) == attribute_regex(LANGUAGE_KEY, attrs)

\* .unwrap_or_default() instead of the placeholder
identifier_of_default(attrs) ==
    LET m == identifier_regex(attrs) IN IF m = None THEN <<>> ELSE m[1]

\* .unwrap_or_else(|| "unknown".to_string())
identifier_of(attrs) ==
    LET m == identifier_regex(attrs) IN IF m = None THEN UNKNOWN ELSE m[1]

\* One capture of the loop: the Markdown part before it, if any, and the
\* Artifact part.
capture_parts(full, last_end, cap) ==
    (IF cap.start > last_end
        THEN <<Markdown(SubSeq(full, last_end + 1, cap.start))>>
        ELSE <<>>)
    \o <<Artifact(identifier_of(cap.attrs), language_regex(cap.attrs), cap.content)>>

\* The loop without the remaining text: what follows the last artifact is
\* not added.
RECURSIVE captures_loop_no_rest(_, _, _)
captures_loop_no_rest(full, last_end, parts) ==
    LET cap == artifact_regex(full, last_end)
    IN  IF cap = None
            THEN IF last_end = 0 /\ full # <<>> THEN <<Markdown(full)>> ELSE parts
            ELSE captures_loop_no_rest(full, cap[1].end,
                                       parts \o capture_parts(full, last_end, cap[1]))

\* for cap in artifact_regex.captures_iter(&full_content) { ... }, then the
\* remaining text.
RECURSIVE captures_loop(_, _, _)
captures_loop(full, last_end, parts) ==
    LET cap == artifact_regex(full, last_end)
    IN  IF cap = None
            THEN IF last_end < Len(full)
                    THEN parts \o <<Markdown(SubSeq(full, last_end + 1, Len(full)))>>
                    ELSE parts
            ELSE captures_loop(full, cap[1].end,
                               parts \o capture_parts(full, last_end, cap[1]))

parse_message_parts(full) == captures_loop(full, 0, <<>>)

----------------------------------------------------------------------------
\* WorkspaceContext and Conversation (src/src/model.rs)

USER_ROLE == "user"
ASSISTANT_ROLE == "assistant"

\* The raw context strings the commands are given.
RawContexts == {<<"a.rs">>, <<"https://", "c">>}

\* impl From<String> for WorkspaceContext
WorkspaceContext_from(raw) ==
    IF StartsWithAt(raw, <<"http://">>, 1) \/ StartsWithAt(raw, <<"https://">>, 1)
        THEN [variant |-> "Url", value |-> raw]
        ELSE [variant |-> "File", value |-> raw]

Contexts == {WorkspaceContext_from(raw) : raw \in RawContexts}

\* What std::fs::read_to_string / reqwest::blocking::get return for a context
\* whose fetch succeeds.
Contents(context) == <<"contents of">> \o context.value

\* WorkspaceContext::retrieve: Ok(the wrapped contents) when the context is
\* fetchable, Err otherwise.
retrieve(context, fetchable) ==
    IF context \in fetchable
        THEN [ok |-> TRUE,
              value |-> <<"<ClaippyContext src=", QUOTE>> \o context.value
                        \o <<QUOTE, GT>> \o Contents(context)
                        \o <<"</ClaippyContext>">>]
        ELSE [ok |-> FALSE, value |-> <<>>]

\* Conversation::empty
Conversation_empty(id) ==
    [id |-> id, unseen_context |-> {}, seen_context |-> {}, messages |-> <<>>]

\* add_workspace_contexts taking out of unseen_context a context that is in it.
add_workspace_contexts_toggling(conv, raw_contexts) ==
    LET given == {WorkspaceContext_from(raw) : raw \in raw_contexts}
    IN  [conv EXCEPT !.unseen_context = (@ \ given) \cup (given \ @)]

\* Conversation::add_workspace_contexts: every raw context is converted and
\* inserted into unseen_context.
add_workspace_contexts(conv, raw_contexts) ==
    [conv EXCEPT !.unseen_context =
        @ \cup {WorkspaceContext_from(raw) : raw \in raw_contexts}]

\* remove_workspace_contexts deleting from unseen_context only.
remove_from_unseen_only(conv, paths) ==
    LET gone == {WorkspaceContext_from(raw) : raw \in paths}
    IN  [conv EXCEPT !.unseen_context = @ \ gone]

\* Conversation::remove_workspace_contexts
remove_workspace_contexts(conv, paths) ==
    LET gone == {WorkspaceContext_from(raw) : raw \in paths}
    IN  [conv EXCEPT !.unseen_context = @ \ gone, !.seen_context = @ \ gone]

\* clear with seen_context assigned to unseen_context instead of extending it.
clear_replacing_unseen(conv) ==
    [conv EXCEPT !.messages = <<>>,
                 !.unseen_context = conv.seen_context,
                 !.seen_context = {}]

\* Conversation::clear
clear(conv) ==
    [conv EXCEPT !.messages = <<>>,
                 !.unseen_context = @ \cup conv.seen_context,
                 !.seen_context = {}]

\* Conversation::user_message
user_message(content) == [role |-> USER_ROLE, content |-> content]

\* The loop without self.seen_context.insert(context).
RECURSIVE drain_loop_not_inserting(_, _, _, _, _)
drain_loop_not_inserting(order, k, text, seen, fetchable) ==
    IF k > Len(order) THEN [ok |-> TRUE, text |-> text, seen |-> seen]
    ELSE LET got == retrieve(order[k], fetchable)
         IN  IF ~got.ok THEN [ok |-> FALSE, text |-> text, seen |-> seen]
             ELSE drain_loop_not_inserting(order, k + 1,
                                           text \o got.value \o <<NEWLINE>>,
                                           seen, fetchable)

\* The body of the loop of add_user_message for the k-th context the drain
\* yields and the ones after it.  A failed retrieve returns at once (the ?
\* operator); seen is what seen_context holds then.
RECURSIVE drain_loop(_, _, _, _, _)
drain_loop(order, k, text, seen, fetchable) ==
    IF k > Len(order) THEN [ok |-> TRUE, text |-> text, seen |-> seen]
    ELSE LET got == retrieve(order[k], fetchable)
         IN  IF ~got.ok THEN [ok |-> FALSE, text |-> text, seen |-> seen]
             ELSE drain_loop(order, k + 1, text \o got.value \o <<NEWLINE>>,
                             seen \cup {order[k]}, fetchable)

\* add_user_message recording the text gathered so far when a fetch fails.
add_user_message_partial(conv, message, order, fetchable) ==
    LET r == drain_loop(order, 1, <<>>, conv.seen_context, fetchable)
    IN  [result |-> IF r.ok THEN "Ok" ELSE "Err",
         conversation |->
             [conv EXCEPT !.unseen_context = {},
                          !.seen_context = r.seen,
                          !.messages = Append(@, user_message(r.text \o message))]]

\* add_user_message with the message put before the gathered envelopes.
add_user_message_text_first(conv, message, order, fetchable) ==
    LET r == drain_loop(order, 1, <<>>, conv.seen_context, fetchable)
    IN  IF r.ok
            THEN [result |-> "Ok",
                  conversation |->
                      [conv EXCEPT !.unseen_context = {},
                                   !.seen_context = r.seen,
                                   !.messages =
                                       Append(@, user_message(message \o r.text))]]
            ELSE [result |-> "Err",
                  conversation |->
                      [conv EXCEPT !.unseen_context = {},
                                   !.seen_context = r.seen]]

\* Conversation::add_user_message.  order is the order in which
\* unseen_context.drain() yields the contexts (a HashSet's order is
\* arbitrary).  The Drain iterator empties the set: the contexts it has not
\* yielded when it is dropped are removed as well.
add_user_message(conv, message, order, fetchable) ==
    LET r == drain_loop(order, 1, <<>>, conv.seen_context, fetchable)
    IN  IF r.ok
            THEN [result |-> "Ok",
                  conversation |->
                      [conv EXCEPT !.unseen_context = {},
                                   !.seen_context = r.seen,
                                   !.messages =
                                       Append(@, user_message(r.text \o message))]]
            ELSE [result |-> "Err",
                  conversation |->
                      [conv EXCEPT !.unseen_context = {},
                                   !.seen_context = r.seen]]

\* Conversation::add_assistant_message
add_assistant_message(conv, parts) ==
    [conv EXCEPT !.messages = Append(@, [role |-> ASSISTANT_ROLE, parts |-> parts])]

\* The orders in which a HashSet holding S can yield its elements.
Orders(S) ==
    {o \in [1..Cardinality(S) -> S] : \A i, j \in 1..Cardinality(S) : i # j => o[i] # o[j]}

----------------------------------------------------------------------------
\* The Conversation object under its operations

\* The longest message list an operation still appends to.
MaxMessages == 3

\* The user's inputs and the assistant messages appended.
Queries == {<<"q">>}
AssistantReplies == {<<Markdown(<<"r">>)>>}

CONVERSATION_ID == "c1"

\* A .claippy directory without files and without the current symlink.
NoFiles == [id \in {} |-> Conversation_empty(id)]

EmptyStore ==
    /\ files = NoFiles
    /\ current = None

StoreFrame == UNCHANGED <<files, current>>

Idle ==
    /\ pc = "idle"
    /\ query_response = <<>>
    /\ full_content = <<>>
    /\ current_line = <<>>
    /\ delivered = <<>>
    /\ split_marker = FALSE

NoSegmenterRun ==
    /\ seg_pc = "off"
    /\ seg_text = <<>>
    /\ seg_parts = <<>>
    /\ seg_input = <<>>

\* The record of a call: the operation, its inputs and the conversation it was
\* called on.  cleared holds the contexts the latest clear moved out of seen
\* while no call other than failed add_user_message calls has come after it;
\* repeated says that the call before this one was the same add with the same
\* contexts.
Operation(op, arg, order, fetchable) ==
    [op |-> op, arg |-> arg, order |-> order, fetchable |-> fetchable,
     pre |-> conversation,
     cleared |-> IF op = "clear" THEN conversation.seen_context
                 ELSE IF /\ op = "add_user_message"
                         /\ \/ last.op = "clear"
                            \/ last.op = "add_user_message" /\ result = "Err"
                     THEN last.cleared
                     ELSE {},
     repeated |-> /\ op = "add_workspace_contexts"
                  /\ last.op = op
                  /\ last.arg = arg]

Init ==
    /\ conversation = Conversation_empty(CONVERSATION_ID)
    /\ result = "None"
    /\ last = [op |-> "empty", arg |-> {}, order |-> <<>>, fetchable |-> {},
               cleared |-> {}, repeated |-> FALSE,
               pre |-> Conversation_empty(CONVERSATION_ID)]
    /\ db = Conversation_empty(CONVERSATION_ID)
    /\ Idle
    /\ EmptyStore
    /\ NoSegmenterRun

ObjectFrame ==
    UNCHANGED <<db, pc, query_response, full_content, current_line, delivered,
                split_marker, seg_pc, seg_text, seg_parts, seg_input, files,
                current>>

AddWorkspaceContexts ==
    \E raw_contexts \in SUBSET RawContexts :
        /\ conversation' = add_workspace_contexts(conversation, raw_contexts)
        /\ result' = "Ok"
        /\ last' = Operation("add_workspace_contexts", raw_contexts, <<>>, {})
        /\ ObjectFrame

RemoveWorkspaceContexts ==
    \E paths \in SUBSET RawContexts :
        /\ conversation' = remove_workspace_contexts(conversation, paths)
        /\ result' = "Ok"
        /\ last' = Operation("remove_workspace_contexts", paths, <<>>, {})
        /\ ObjectFrame

Clear ==
    /\ conversation' = clear(conversation)
    /\ result' = "Ok"
    /\ last' = Operation("clear", {}, <<>>, {})
    /\ ObjectFrame

AddUserMessage ==
    /\ Len(conversation.messages) < MaxMessages
    /\ \E message \in Queries, order \in Orders(conversation.unseen_context),
          fetchable \in SUBSET Contexts :
        LET r == add_user_message(conversation, message, order, fetchable)
        IN  /\ conversation' = r.conversation
            /\ result' = r.result
            /\ last' = Operation("add_user_message", message, order, fetchable)
            /\ ObjectFrame

AddAssistantMessage ==
    /\ Len(conversation.messages) < MaxMessages
    /\ \E parts \in AssistantReplies :
        /\ conversation' = add_assistant_message(conversation, parts)
        /\ result' = "Ok"
        /\ last' = Operation("add_assistant_message", parts, <<>>, {})
        /\ ObjectFrame

Next ==
    \/ AddWorkspaceContexts
    \/ RemoveWorkspaceContexts
    \/ Clear
    \/ AddUserMessage
    \/ AddAssistantMessage

Spec == Init /\ [][Next]_vars

----------------------------------------------------------------------------
\* handle_query (src/src/command.rs): one query against the stored
\* conversation, the model's response arriving in chunks

\* The most symbols one chunk carries, and the most fragments a response is
\* made of.
MaxChunk == 3
MaxResponseFragments == 3

OpenTag(attrs) == OpenLiteral \o attrs \o <<GT>>

IdentifierAttr(v) == <<IDENTIFIER_KEY, QUOTE>> \o v \o <<QUOTE>>
LanguageAttr(v) == <<LANGUAGE_KEY, QUOTE>> \o v \o <<QUOTE>>

\* The pieces the model's responses are put together from: an opening marker
\* with an identifier, one without, the closing marker, a newline and text.
ResponseFragments ==
    { OpenTag(<<SPACE>> \o IdentifierAttr(<<"x">>)),
      OpenTag(<<>>),
      CloseLiteral,
      <<NEWLINE>>,
      <<"Hello", SPACE>>,
      <<"World">> }

RECURSIVE Concatenations(_, _)
Concatenations(fragments, n) ==
    IF n = 0 THEN {<<>>}
    ELSE LET shorter == Concatenations(fragments, n - 1)
         IN  shorter \cup {t \o f : t \in shorter, f \in fragments}

Responses == Concatenations(ResponseFragments, MaxResponseFragments)

\* The loop with current_line declared per chunk: the line a chunk leaves
\* unfinished is not carried into the next chunk.
RECURSIVE chars_loop_per_chunk(_, _, _)
chars_loop_per_chunk(chunk, full, line) ==
    IF chunk = <<>> THEN [full_content |-> full, current_line |-> <<>>]
    ELSE IF Head(chunk) = NEWLINE
        THEN chars_loop_per_chunk(Tail(chunk), full \o line \o <<NEWLINE>>, <<>>)
        ELSE chars_loop_per_chunk(Tail(chunk), full, Append(line, Head(chunk)))

\* The loop without full_content.push('\n').
RECURSIVE chars_loop_dropping_newlines(_, _, _)
chars_loop_dropping_newlines(chunk, full, line) ==
    IF chunk = <<>> THEN [full_content |-> full, current_line |-> line]
    ELSE IF Head(chunk) = NEWLINE
        THEN chars_loop_dropping_newlines(Tail(chunk), full \o line, <<>>)
        ELSE chars_loop_dropping_newlines(Tail(chunk), full, Append(line, Head(chunk)))

\* for c in chunk.chars() { ... }: a newline completes the current line, which
\* goes to full_content with its newline; any other character joins the line.
RECURSIVE chars_loop(_, _, _)
chars_loop(chunk, full, line) ==
    IF chunk = <<>> THEN [full_content |-> full, current_line |-> line]
    ELSE IF Head(chunk) = NEWLINE
        THEN chars_loop(Tail(chunk), full \o line \o <<NEWLINE>>, <<>>)
        ELSE chars_loop(Tail(chunk), full, Append(line, Head(chunk)))

\* A chunk that stops between the two halves of the marker name.
EndsInsideMarker(chunk) == chunk # <<>> /\ chunk[Len(chunk)] = CLAIPPY_ARTIFACT[1]

\* if !current_line.is_empty() { ... full_content.push_str(&current_line); }
remaining_line(full, line) == IF line # <<>> THEN full \o line ELSE full

\* Conversations the store can hold when a query starts.
AFile == WorkspaceContext_from(<<"a.rs">>)

AnsweredOnce ==
    add_assistant_message(
        add_user_message(
            add_workspace_contexts(Conversation_empty(CONVERSATION_ID), {<<"a.rs">>}),
            <<"q">>, <<AFile>>, {AFile}).conversation,
        <<Markdown(<<"r">>)>>)

StoredConversations ==
    { Conversation_empty(CONVERSATION_ID),
      add_workspace_contexts(Conversation_empty(CONVERSATION_ID), {<<"a.rs">>}),
      add_workspace_contexts(Conversation_empty(CONVERSATION_ID), RawContexts),
      AnsweredOnce,
      add_workspace_contexts(AnsweredOnce, {<<"https://", "c">>}) }

InitQuery ==
    /\ db \in StoredConversations
    /\ conversation = db
    /\ result = "None"
    /\ last = [op |-> "empty", arg |-> {}, order |-> <<>>, fetchable |-> {},
               cleared |-> {}, repeated |-> FALSE,
               pre |-> db]
    /\ Idle
    /\ EmptyStore
    /\ NoSegmenterRun

SegmenterFrame == UNCHANGED <<seg_pc, seg_text, seg_parts, seg_input>>

\* let mut conversation = db.read_current_conversation()?;
\* conversation.add_user_message(query)?  fails: the error is returned.
QueryContextUnavailable ==
    /\ pc = "idle"
    /\ \E query \in Queries, order \in Orders(db.unseen_context),
          fetchable \in SUBSET Contexts :
        LET r == add_user_message(db, query, order, fetchable)
        IN  /\ r.result = "Err"
            /\ conversation' = r.conversation
            /\ result' = "Err"
            /\ last' = [Operation("handle_query", query, order, fetchable)
                            EXCEPT !.pre = db]
            /\ pc' = "done"
            /\ UNCHANGED <<db, query_response, full_content, current_line, delivered,
                           split_marker>>
            /\ SegmenterFrame
            /\ StoreFrame

\* add_user_message succeeds and model.generate(...)? fails.
QueryGenerateFailed ==
    /\ pc = "idle"
    /\ \E query \in Queries, order \in Orders(db.unseen_context),
          fetchable \in SUBSET Contexts :
        LET r == add_user_message(db, query, order, fetchable)
        IN  /\ r.result = "Ok"
            /\ conversation' = r.conversation
            /\ result' = "Err"
            /\ last' = [Operation("handle_query", query, order, fetchable)
                            EXCEPT !.pre = db]
            /\ pc' = "done"
            /\ UNCHANGED <<db, query_response, full_content, current_line, delivered,
                           split_marker>>
            /\ SegmenterFrame
            /\ StoreFrame

\* add_user_message succeeds and model.generate returns the chunk iterator.
QueryBegin ==
    /\ pc = "idle"
    /\ \E query \in Queries, order \in Orders(db.unseen_context),
          fetchable \in SUBSET Contexts, response \in Responses :
        LET r == add_user_message(db, query, order, fetchable)
        IN  /\ r.result = "Ok"
            /\ conversation' = r.conversation
            /\ result' = "None"
            /\ last' = [Operation("handle_query", query, order, fetchable)
                            EXCEPT !.pre = db]
            /\ pc' = "streaming"
            /\ query_response' = response
            /\ full_content' = <<>>
            /\ current_line' = <<>>
            /\ delivered' = <<>>
            /\ split_marker' = FALSE
            /\ UNCHANGED db
            /\ SegmenterFrame
            /\ StoreFrame

\* for chunk_result in query_response { let chunk = chunk_result?; ... }: the
\* iterator yields Ok(chunk), the next symbols of the response.
StreamChunk ==
    /\ pc = "streaming"
    /\ \E n \in 0..MaxChunk :
        /\ n <= Len(query_response)
        /\ LET chunk == SubSeq(query_response, 1, n)
               r == chars_loop(chunk, full_content, current_line)
           IN  /\ full_content' = r.full_content
               /\ current_line' = r.current_line
               /\ delivered' = delivered \o chunk
               /\ split_marker' = (split_marker \/ EndsInsideMarker(chunk))
               /\ query_response' = SubSeq(query_response, n + 1, Len(query_response))
        /\ UNCHANGED <<conversation, result, last, db, pc>>
        /\ SegmenterFrame
        /\ StoreFrame

\* The iterator yields Err: chunk_result? returns the error out of handle_query.
StreamError ==
    /\ pc = "streaming"
    /\ result' = "Err"
    /\ pc' = "done"
    /\ UNCHANGED <<conversation, last, db, query_response, full_content,
                   current_line, delivered, split_marker>>
    /\ SegmenterFrame
    /\ StoreFrame

\* The iterator is exhausted: the remaining line is taken, the content parsed,
\* the assistant message appended and the conversation written.
StreamEnd ==
    /\ pc = "streaming"
    /\ query_response = <<>>
    /\ LET full == remaining_line(full_content, current_line)
           parsed_message == parse_message_parts(full)
       IN  /\ full_content' = full
           /\ conversation' = add_assistant_message(conversation, parsed_message)
           /\ db' = add_assistant_message(conversation, parsed_message)
    /\ result' = "Ok"
    /\ pc' = "done"
    /\ UNCHANGED <<last, query_response, current_line, delivered, split_marker>>
    /\ SegmenterFrame
    /\ StoreFrame

NextQuery ==
    \/ QueryContextUnavailable
    \/ QueryGenerateFailed
    \/ QueryBegin
    \/ StreamChunk
    \/ StreamError
    \/ StreamEnd

SpecQuery == InitQuery /\ [][NextQuery]_vars

----------------------------------------------------------------------------
\* The segmenter and the serializer applied to each other's output

\* The most fragments a text is made of, and the most parts a sequence holds.
MaxTextFragments == 4
MaxParts == 3

\* The opening marker as the serializer writes it.
SerializedOpenTag(identifier, language) ==
    OpenTag(<<SPACE>> \o IdentifierAttr(identifier)
            \o (IF language = None THEN <<>>
                ELSE <<SPACE>> \o LanguageAttr(language[1])))

\* The literal form of one part: Markdown as it is, an Artifact wrapped in
\* its markers again.
part_literal(part) ==
    IF part.type = "Markdown" THEN part.text
    ELSE SerializedOpenTag(part.identifier, part.language) \o part.content
         \o CloseLiteral

\* flatten_for_transmission: the parts of one message as one literal string.
RECURSIVE flatten_for_transmission(_)
flatten_for_transmission(parts) ==
    IF parts = <<>> THEN <<>>
    ELSE part_literal(Head(parts)) \o flatten_for_transmission(Tail(parts))

\* The pieces the texts are put together from: opening markers (with an
\* identifier, with identifier and language, bare, with doubled blanks and an
\* attribute the segmenter does not know, with an empty identifier), the closing marker, text, a
\* newline and the beginning of a marker.
TextFragments ==
    { OpenTag(<<SPACE>> \o IdentifierAttr(<<"x">>)),
      OpenTag(<<SPACE>> \o IdentifierAttr(<<"x">>) \o <<SPACE>> \o LanguageAttr(<<"y">>)),
      OpenTag(<<>>),
      OpenTag(<<SPACE, SPACE>> \o IdentifierAttr(<<"x">>) \o <<SPACE>>
              \o LanguageAttr(<<"y">>) \o <<SPACE, "src">>),
      OpenTag(<<SPACE>> \o IdentifierAttr(<<>>)),
      CloseLiteral,
      <<"x">>,
      <<NEWLINE>>,
      <<LT, "Claippy">> }

Texts == Concatenations(TextFragments, MaxTextFragments)

\* The parts the sequences given to the serializer are made of: text (plain,
\* a newline, the beginning of a marker, empty, the marker name, a whole marker
\* pair) and artifacts (with and without language, with the placeholder
\* identifier and no content, with an empty identifier, with an identifier
\* that ends in the language key, with a closing marker as content).
Parts ==
    { Markdown(<<"x">>),
      Markdown(<<NEWLINE>>),
      Markdown(<<LT, "Claippy">>),
      Markdown(<<>>),
      Markdown(OpenLiteral),
      Markdown(OpenTag(<<>>) \o <<"x">> \o CloseLiteral),
      Artifact(<<"x">>, None, <<"b">>),
      Artifact(<<"x">>, Some(<<"y">>), <<"b", NEWLINE>>),
      Artifact(UNKNOWN, None, <<>>),
      Artifact(<<>>, None, <<"b">>),
      Artifact(<<LANGUAGE_KEY>>, Some(<<"y">>), <<"b">>),
      Artifact(<<"x">>, None, CloseLiteral) }

PartSequences == UNION {[1..n -> Parts] : n \in 0..MaxParts}

InitSegmenter ==
    /\ conversation = Conversation_empty(CONVERSATION_ID)
    /\ result = "None"
    /\ last = [op |-> "empty", arg |-> {}, order |-> <<>>, fetchable |-> {},
               cleared |-> {}, repeated |-> FALSE,
               pre |-> Conversation_empty(CONVERSATION_ID)]
    /\ db = Conversation_empty(CONVERSATION_ID)
    /\ Idle
    /\ EmptyStore
    /\ \/ /\ seg_pc = "text"
          /\ seg_text \in Texts
          /\ seg_parts = <<>>
          /\ seg_input = [from |-> "text", text |-> seg_text, parts |-> <<>>]
       \/ /\ seg_pc = "parts"
          /\ seg_parts \in PartSequences
          /\ seg_text = <<>>
          /\ seg_input = [from |-> "parts", text |-> <<>>, parts |-> seg_parts]

SegmenterOnly ==
    UNCHANGED <<conversation, result, last, db, pc, query_response, full_content,
                current_line, delivered, split_marker, files, current>>

\* parse_message_parts applied to the text: to a response ("text"), or to what
\* the serializer wrote ("flattened").
SegmentText ==
    /\ seg_pc \in {"text", "flattened"}
    /\ seg_parts' = parse_message_parts(seg_text)
    /\ seg_pc' = IF seg_pc = "text" THEN "segmented" ELSE "roundtrip"
    /\ seg_input' = IF seg_pc = "text"
                        THEN [seg_input EXCEPT !.parts = parse_message_parts(seg_text)]
                        ELSE seg_input
    /\ UNCHANGED seg_text
    /\ SegmenterOnly

\* The serializer applied to the parts: to a given sequence ("parts"), or to
\* what the segmenter produced ("segmented").
FlattenParts ==
    /\ seg_pc \in {"parts", "segmented"}
    /\ seg_text' = flatten_for_transmission(seg_parts)
    /\ seg_pc' = IF seg_pc = "parts" THEN "flattened" ELSE "reflattened"
    /\ UNCHANGED <<seg_parts, seg_input>>
    /\ SegmenterOnly

NextSegmenter == SegmentText \/ FlattenParts

SpecSegmenter == InitSegmenter /\ [][NextSegmenter]_vars

----------------------------------------------------------------------------
\* Properties of the Conversation object (specification Spec)

LastMessage(conv) == conv.messages[Len(conv.messages)]

\* The contexts whose retrieve succeeded in the last add_user_message: those
\* the drain yielded before the first one that could not be fetched.
FetchedInLastCall ==
    {last.order[i] : i \in {k \in 1..Len(last.order) :
                               \A j \in 1..k : last.order[j] \in last.fetchable}}

\* The envelope retrieve wraps a context's contents in.
Envelope(context) == retrieve(context, {context}).value

Contains(s, lit) == Find(s, lit, 1) # 0

\* C1: in every reachable state of a Conversation, no context is a member of
\* both seen_context and unseen_context.
C1_SeenUnseenDisjoint ==
    conversation.seen_context \cap conversation.unseen_context = {}

\* C2: when add_user_message fails, every context that was in unseen before
\* the call is in seen if its own fetch succeeded during the call and is still
\* in unseen otherwise; none disappears, and none enters seen unfetched.
C2_FailedCallKeepsEveryReference ==
    (last.op = "add_user_message" /\ result = "Err") =>
        /\ \A c \in last.pre.unseen_context :
              IF c \in FetchedInLastCall
                  THEN c \in conversation.seen_context
                       /\ c \notin conversation.unseen_context
                  ELSE c \in conversation.unseen_context
        /\ \A c \in conversation.seen_context :
              c \in FetchedInLastCall \/ c \in last.pre.seen_context

\* C3: when a pending context cannot be fetched, add_user_message returns the
\* error and the message list is exactly what it was before the call.
C3_FailedTurnNotRecorded ==
    (/\ last.op = "add_user_message"
     /\ \E c \in last.pre.unseen_context : c \notin last.fetchable)
    => /\ result = "Err"
       /\ conversation.messages = last.pre.messages

\* A failed add_user_message on a conversation that already has messages,
\* after one context had been fetched and its envelope gathered.
C3_Witness ==
    /\ last.op = "add_user_message"
    /\ result = "Err"
    /\ last.pre.messages # <<>>
    /\ FetchedInLastCall # {}
    /\ conversation.messages = last.pre.messages

\* C10: adding a context that is already in seen leaves seen and unseen as
\* they were, and a successful add_user_message never delivers again a context
\* that was in seen.
C10_AddSeenIsNoOp ==
    /\ (/\ last.op = "add_workspace_contexts"
        /\ last.arg # {}
        /\ {WorkspaceContext_from(raw) : raw \in last.arg} \subseteq last.pre.seen_context)
       => /\ conversation.seen_context = last.pre.seen_context
          /\ conversation.unseen_context = last.pre.unseen_context
    /\ (last.op = "add_user_message" /\ result = "Ok")
       => \A c \in last.pre.seen_context :
              ~Contains(LastMessage(conversation).content, Envelope(c))

----------------------------------------------------------------------------
\* Properties of handle_query (specification SpecQuery)

\* What handle_query stores for a response that arrives as one chunk.
OneChunkParts(text) ==
    LET r == chars_loop(text, <<>>, <<>>)
    IN  parse_message_parts(remaining_line(r.full_content, r.current_line))

\* C4: when the stream yields text and then an error, the stored conversation
\* gains the user message and an assistant message holding the text received
\* before the error, and the error is returned.
C4_PartialResponseRecorded ==
    (/\ pc = "done"
     /\ last.op = "handle_query"
     /\ result = "Err"
     /\ delivered # <<>>)
    => /\ Len(db.messages) = Len(last.pre.messages) + 2
       /\ LastMessage(db) = [role |-> ASSISTANT_ROLE,
                             parts |-> parse_message_parts(delivered)]

\* C5: however the response is split into chunks, the parts stored for the
\* assistant message are the parts stored when it arrives as one chunk.
C5_ChunkBoundaryIndependence ==
    (pc = "done" /\ last.op = "handle_query" /\ result = "Ok")
    => LastMessage(db) = [role |-> ASSISTANT_ROLE, parts |-> OneChunkParts(delivered)]

\* A response with text, a newline and an artifact, received in several chunks
\* one of which ended inside a marker name.
C5_Witness ==
    /\ pc = "done"
    /\ result = "Ok"
    /\ split_marker
    /\ Contains(delivered, <<NEWLINE>>)
    /\ \E i \in 1..Len(LastMessage(db).parts) :
          LastMessage(db).parts[i].type = "Artifact"
    /\ \E i \in 1..Len(LastMessage(db).parts) :
          LastMessage(db).parts[i].type = "Markdown"

----------------------------------------------------------------------------
\* Properties of the segmenter (specification SpecSegmenter)

\* Adjacent Markdown parts merged into one; an empty Markdown part, which has
\* no literal form, merges into nothing.
RECURSIVE MergeMarkdown(_)
MergeMarkdown(parts) ==
    IF parts = <<>> THEN <<>>
    ELSE IF parts[1].type = "Markdown" /\ parts[1].text = <<>>
        THEN MergeMarkdown(Tail(parts))
    ELSE IF Len(parts) >= 2 /\ parts[1].type = "Markdown" /\ parts[2].type = "Markdown"
        THEN MergeMarkdown(<<Markdown(parts[1].text \o parts[2].text)>>
                           \o SubSeq(parts, 3, Len(parts)))
        ELSE <<parts[1]>> \o MergeMarkdown(Tail(parts))

IsArtifact(part) == part.type = "Artifact"
ArtifactIndexes(parts) == {i \in 1..Len(parts) : IsArtifact(parts[i])}
MarkdownIndexes(parts) == {i \in 1..Len(parts) : ~IsArtifact(parts[i])}

\* Parts that the serializer writes without ambiguity: Markdown does not
\* hold the opening marker name;
\* identifier and language are not empty and hold neither a quote nor ">",
\* the identifier does not hold the language key; the content does not hold
\* the closing marker.
PlainValue(v) == v # <<>> /\ \A k \in 1..Len(v) : v[k] \notin {QUOTE, GT}

WellFormedPart(part) ==
    IF part.type = "Markdown"
        THEN ~Contains(part.text, OpenLiteral)
        ELSE /\ PlainValue(part.identifier)
             /\ ~Contains(part.identifier, <<LANGUAGE_KEY>>)
             /\ (part.language # None => PlainValue(part.language[1]))
             /\ ~Contains(part.content, CloseLiteral)

WellFormedParts(parts) == \A i \in 1..Len(parts) : WellFormedPart(parts[i])

\* C6: serializing any sequence of parts and segmenting the result yields the
\* sequence again, up to the merging of adjacent Markdown parts.
C6_RoundTripOfAnyParts ==
    seg_pc = "roundtrip"
    => MergeMarkdown(seg_parts) = MergeMarkdown(seg_input.parts)

\* C6, amended: serializing a sequence of parts and segmenting the result
\* yields the sequence again, up to the merging of adjacent Markdown parts,
\* when the merged sequence is well formed.
C6_RoundTripOfWellFormedParts ==
    (seg_pc = "roundtrip" /\ WellFormedParts(MergeMarkdown(seg_input.parts)))
    => seg_parts = MergeMarkdown(seg_input.parts)

\* Text, an artifact with identifier and language, text: serialized and
\* segmented into the same three parts.
C6_Witness ==
    /\ seg_pc = "roundtrip"
    /\ WellFormedParts(seg_input.parts)
    /\ Len(seg_input.parts) = 3
    /\ seg_input.parts[1].type = "Markdown"
    /\ IsArtifact(seg_input.parts[2])
    /\ seg_input.parts[2].language # None
    /\ seg_input.parts[3].type = "Markdown"
    /\ seg_parts = seg_input.parts

\* Whether every opening marker the segmenter matches in t, from offset
\* last_end on, is written as the serializer writes it for the identifier and
\* the language taken from it.
RECURSIVE OpeningMarkersSerialized(_, _)
OpeningMarkersSerialized(t, last_end) ==
    LET cap == artifact_regex(t, last_end)
    IN  \/ cap = None
        \/ /\ SubSeq(t, cap[1].start + 1, cap[1].body_start)
                = SerializedOpenTag(identifier_of(cap[1].attrs),
                                    language_regex(cap[1].attrs))
           /\ OpeningMarkersSerialized(t, cap[1].end)

\* C7: segmenting any response and concatenating the literal forms of the
\* parts gives the response back, symbol for symbol.
C7_LosslessReconstruction ==
    seg_pc = "reflattened" => seg_text = seg_input.text

\* C7, amended: segmenting a response and concatenating the literal forms of
\* the parts gives the response back when every opening marker of a complete
\* pair is written the way the serializer writes it.
C7_LosslessWhenMarkersSerialized ==
    (seg_pc = "reflattened" /\ OpeningMarkersSerialized(seg_input.text, 0))
    => seg_text = seg_input.text

\* A response with text after an artifact whose marker carries identifier and
\* language, given back unchanged.
C7_Witness ==
    /\ seg_pc = "reflattened"
    /\ OpeningMarkersSerialized(seg_input.text, 0)
    /\ \E i \in ArtifactIndexes(seg_parts) :
          /\ seg_parts[i].language # None
          /\ i < Len(seg_parts)
    /\ seg_text = seg_input.text

\* The offset at which the last closing marker of t ends, 0 without one.
LastCloseEnd(t) ==
    LET ends == {i + Len(CloseLiteral) - 1 : i \in {j \in 1..Len(t) :
                                                     StartsWithAt(t, CloseLiteral, j)}}
    IN  IF ends = {} THEN 0 ELSE CHOOSE e \in ends : \A f \in ends : f <= e

CloseCount(t) == Cardinality({j \in 1..Len(t) : StartsWithAt(t, CloseLiteral, j)})

IsSuffix(suffix, t) ==
    /\ Len(suffix) <= Len(t)
    /\ SubSeq(t, Len(t) - Len(suffix) + 1, Len(t)) = suffix

\* What follows the last closing marker of t.
Unterminated(t) == SubSeq(t, LastCloseEnd(t) + 1, Len(t))

\* C8: when the text after the last closing marker holds an opening marker,
\* no Artifact is produced for it: that text, marker included, ends the last
\* part, which is Markdown, and there are no more Artifacts than closing
\* markers.
C8_UnterminatedMarkerIsText ==
    (seg_pc = "segmented" /\ Contains(Unterminated(seg_input.text), OpenLiteral))
    => /\ seg_parts # <<>>
       /\ seg_parts[Len(seg_parts)].type = "Markdown"
       /\ IsSuffix(Unterminated(seg_input.text), seg_parts[Len(seg_parts)].text)
       /\ Cardinality(ArtifactIndexes(seg_parts)) <= CloseCount(seg_input.text)

\* A complete artifact followed by an opening marker that is never closed.
C8_Witness ==
    /\ seg_pc = "segmented"
    /\ Contains(Unterminated(seg_input.text), OpenLiteral \o <<GT>>)
    /\ LastCloseEnd(seg_input.text) > 0
    /\ Len(seg_parts) = 2
    /\ IsArtifact(seg_parts[1])
    /\ seg_parts[2] = Markdown(Unterminated(seg_input.text))

\* t with the opening marker of its first complete pair replaced by a
\* well-formed one, identifier "x".
WithWellFormedMarker(t) ==
    LET cap == artifact_regex(t, 0)[1]
    IN  SubSeq(t, 1, cap.start) \o OpenTag(<<SPACE>> \o IdentifierAttr(<<"x">>))
        \o SubSeq(t, cap.body_start + 1, Len(t))

\* parts with the identifier and the language of its first Artifact replaced.
WithFirstArtifact(parts, identifier, language) ==
    LET i == Min(ArtifactIndexes(parts))
    IN  [parts EXCEPT ![i] = Artifact(identifier, language, parts[i].content)]

\* C9: when the first complete marker pair has no identifier attribute, or an
\* empty one, an Artifact with the identifier "unknown" is produced for it,
\* and all parts are those of the same text with a well-formed marker, but
\* for that identifier.
C9_MissingIdentifierPlaceholder ==
    (/\ seg_pc = "segmented"
     /\ artifact_regex(seg_input.text, 0) # None
     /\ identifier_regex(artifact_regex(seg_input.text, 0)[1].attrs) = None)
    => LET cap == artifact_regex(seg_input.text, 0)[1]
           twin == parse_message_parts(WithWellFormedMarker(seg_input.text))
       IN  /\ ArtifactIndexes(twin) # {}
           /\ seg_parts = WithFirstArtifact(twin, UNKNOWN, language_regex(cap.attrs))

\* Text, a marker pair without identifier, text: three parts, the second an
\* Artifact named "unknown".
C9_Witness ==
    /\ seg_pc = "segmented"
    /\ artifact_regex(seg_input.text, 0) # None
    /\ identifier_regex(artifact_regex(seg_input.text, 0)[1].attrs) = None
    /\ Len(seg_parts) = 3
    /\ seg_parts[1].type = "Markdown"
    /\ IsArtifact(seg_parts[2])
    /\ seg_parts[2].identifier = UNKNOWN
    /\ seg_parts[3].type = "Markdown"

----------------------------------------------------------------------------
\* Further properties of the Conversation object (specification Spec)

\* C11: clear never fails; after it the message list is empty, seen is empty,
\* unseen is what unseen and seen held together before the call, and the id
\* is the one the conversation had.
C11_ClearResetsToUnseen ==
    last.op = "clear" =>
        /\ result = "Ok"
        /\ conversation.messages = <<>>
        /\ conversation.seen_context = {}
        /\ conversation.unseen_context =
               last.pre.unseen_context \cup last.pre.seen_context
        /\ conversation.id = last.pre.id

\* clear on a conversation that had messages, a seen context and a different
\* unseen context.
C11_Witness ==
    /\ last.op = "clear"
    /\ last.pre.messages # <<>>
    /\ last.pre.seen_context # {}
    /\ last.pre.unseen_context \ last.pre.seen_context # {}
    /\ conversation.unseen_context = Contexts

\* C12: when clear has moved a delivered context out of seen, the next
\* add_user_message that succeeds carries that context's envelope in the User
\* message it appends and has the context in seen again.
C12_ClearThenRedeliver ==
    (last.op = "add_user_message" /\ result = "Ok") =>
        \A c \in last.cleared :
            /\ Contains(LastMessage(conversation).content, Envelope(c))
            /\ c \in conversation.seen_context

\* C13: after remove_workspace_contexts(paths) none of the given contexts is
\* in seen or unseen; every other context is in the set it was in, the
\* message list is what it was, and when none of the given contexts was in
\* either set the conversation is unchanged.
C13_RemoveDeletesFromBothSets ==
    last.op = "remove_workspace_contexts" =>
        LET gone == {WorkspaceContext_from(raw) : raw \in last.arg}
        IN  /\ gone \cap (conversation.seen_context \cup conversation.unseen_context) = {}
            /\ \A c \in Contexts \ gone :
                  /\ c \in conversation.seen_context <=> c \in last.pre.seen_context
                  /\ c \in conversation.unseen_context <=> c \in last.pre.unseen_context
            /\ conversation.messages = last.pre.messages
            /\ gone \cap (last.pre.seen_context \cup last.pre.unseen_context) = {}
                   => conversation = last.pre

\* A remove that took one context out of seen and left the other context in
\* unseen, on a conversation with messages.
C13_Witness ==
    /\ last.op = "remove_workspace_contexts"
    /\ \E raw \in last.arg : WorkspaceContext_from(raw) \in last.pre.seen_context
    /\ conversation.unseen_context # {}
    /\ conversation.seen_context = {}
    /\ conversation.messages # <<>>
    /\ conversation.messages = last.pre.messages

\* How many times lit occurs in s.
Occurrences(s, lit) == Cardinality({j \in 1..Len(s) : StartsWithAt(s, lit, j)})

\* C14: after a successful add_user_message unseen is empty, seen is what
\* seen and unseen held together before the call, and the appended User
\* message holds exactly one envelope for each context that was in unseen and
\* none for a context that was in seen only.
C14_SuccessfulTurnDeliversUnseen ==
    (last.op = "add_user_message" /\ result = "Ok") =>
        /\ conversation.unseen_context = {}
        /\ conversation.seen_context =
               last.pre.seen_context \cup last.pre.unseen_context
        /\ LastMessage(conversation).role = USER_ROLE
        /\ \A c \in last.pre.unseen_context :
              Occurrences(LastMessage(conversation).content, Envelope(c)) = 1
        /\ \A c \in Contexts \ last.pre.unseen_context :
              Occurrences(LastMessage(conversation).content, Envelope(c)) = 0

\* A successful add_user_message on a conversation with one context in unseen
\* and another one in seen only.
C14_Witness ==
    /\ last.op = "add_user_message"
    /\ result = "Ok"
    /\ last.pre.unseen_context # {}
    /\ last.pre.seen_context \ last.pre.unseen_context # {}
    /\ conversation.seen_context = Contexts
    /\ conversation.unseen_context = {}

\* The envelopes of the contexts of order, each followed by a newline.
RECURSIVE EnvelopesOf(_)
EnvelopesOf(order) ==
    IF order = <<>> THEN <<>>
    ELSE Envelope(Head(order)) \o <<NEWLINE>> \o EnvelopesOf(Tail(order))

\* C15: a successful add_user_message(message) appends exactly one message,
\* with the user role, after the messages the conversation had, which are
\* unchanged; its content is the envelopes of the pending contexts, each
\* followed by a newline, followed by message, and is message itself when no
\* context was pending.
C15_UserTurnContent ==
    (last.op = "add_user_message" /\ result = "Ok") =>
        /\ Len(conversation.messages) = Len(last.pre.messages) + 1
        /\ SubSeq(conversation.messages, 1, Len(last.pre.messages)) = last.pre.messages
        /\ LastMessage(conversation).role = USER_ROLE
        /\ LastMessage(conversation).content = EnvelopesOf(last.order) \o last.arg
        /\ last.pre.unseen_context = {} => LastMessage(conversation).content = last.arg

\* A successful add_user_message with two pending contexts on a conversation
\* that already had messages.
C15_Witness ==
    /\ last.op = "add_user_message"
    /\ result = "Ok"
    /\ last.pre.messages # <<>>
    /\ last.pre.unseen_context = Contexts
    /\ Len(conversation.messages) = Len(last.pre.messages) + 1
    /\ LastMessage(conversation).content # last.arg

\* C16: add_workspace_contexts with the contexts the call before it was given
\* leaves seen and unseen as the first of the two calls left them.
C16_AddTwiceIsAddOnce ==
    (last.op = "add_workspace_contexts" /\ last.repeated) =>
        /\ conversation.seen_context = last.pre.seen_context
        /\ conversation.unseen_context = last.pre.unseen_context

\* The second of two add_workspace_contexts calls with the same single
\* context, on a conversation that has that context in seen as well.
C16_Witness ==
    /\ last.op = "add_workspace_contexts"
    /\ last.repeated
    /\ Cardinality(last.arg) = 1
    /\ \E raw \in last.arg : WorkspaceContext_from(raw) \in last.pre.seen_context
    /\ conversation.unseen_context = last.pre.unseen_context

----------------------------------------------------------------------------
\* Further properties of handle_query (specification SpecQuery)

\* C17: when the stream ends without error, the text that is parsed is the
\* chunks put together in the order they arrived, newlines included, and the
\* stored assistant message holds the parts of that text.
C17_ChunksConcatenatedInOrder ==
    (pc = "done" /\ last.op = "handle_query" /\ result = "Ok") =>
        /\ full_content = delivered
        /\ LastMessage(db).role = ASSISTANT_ROLE
        /\ LastMessage(db).parts = parse_message_parts(delivered)

\* A response received in several chunks, with a newline inside it and a
\* newline as its last character.
C17_Witness ==
    /\ pc = "done"
    /\ result = "Ok"
    /\ split_marker
    /\ Len(delivered) > 2
    /\ delivered[Len(delivered)] = NEWLINE
    /\ \E i \in 1..(Len(delivered) - 1) : delivered[i] = NEWLINE
    /\ full_content = delivered

----------------------------------------------------------------------------
\* Delivery of the seen contexts (specification Spec)

\* C18: in every reachable state of a Conversation, each context in seen has
\* its envelope in the content of some user message of the message list.
C18_SeenWasDelivered ==
    \A c \in conversation.seen_context :
        \E i \in 1..Len(conversation.messages) :
            /\ conversation.messages[i].role = USER_ROLE
            /\ Contains(conversation.messages[i].content, Envelope(c))

----------------------------------------------------------------------------
\* The conversation files (src/src/db.rs) and the commands of the command
\* line (src/src/command.rs, CliCmd::execute).  A command runs to its end
\* before the next one starts; the Conversation it works on is a local of the
\* handler and is gone when the handler returns.  serde_json writes and reads
\* back every field of a Conversation, so a file holds the Conversation
\* written to it.

\* The most messages a stored conversation has when a query is still
\* accepted plus two, and the most chunk results a stream yields.
MaxStoredMessages == 4
MaxStreamChunks == 2

\* The ids parse_args makes for the new command (Conversation::create_id adds
\* the time of the call, so an id is not the id of an existing file), and the
\* id read_conversation makes when there is no current conversation.
NewIds == {"n1", "n2"}
UNTITLED == "untitled-conversation"

Store(f, c) == [files |-> f, current |-> c]

\* Db::write_conversation: the file named by the id is written or overwritten.
write_conversation(store, conv) ==
    [store EXCEPT !.files =
        [id \in DOMAIN store.files \cup {conv.id} |->
            IF id = conv.id THEN conv ELSE store.files[id]]]

\* Db::create_conversation: the empty conversation is written, then
\* std::os::unix::fs::symlink makes current point to it; symlink fails when
\* current already exists, and the file stays written.
create_conversation(store, conversation_id) ==
    LET written == write_conversation(store, Conversation_empty(conversation_id))
    IN  IF store.current # None
            THEN [ok |-> FALSE, store |-> written]
            ELSE [ok |-> TRUE,
                  store |-> [written EXCEPT !.current = Some(conversation_id)]]

\* Db::read_current_conversation = read_conversation(CURRENT_PATH): when
\* current does not lead to a file a conversation is created first; then the
\* file current leads to is read.
read_current_conversation(store) ==
    LET exists == /\ store.current # None
                  /\ store.current[1] \in DOMAIN store.files
        created == IF exists THEN [ok |-> TRUE, store |-> store]
                   ELSE create_conversation(store, UNTITLED)
    IN  IF created.ok
            THEN [ok |-> TRUE, store |-> created.store,
                  conversation |-> created.store.files[created.store.current[1]]]
            ELSE [ok |-> FALSE, store |-> created.store, conversation |-> None]

\* What a handler returns, the call it returned from and the files it leaves.
Returned(outcome, stage, store) ==
    [result |-> outcome, stage |-> stage, store |-> store]

\* handle_add_workspace_contexts
handle_add_workspace_contexts(store, paths) ==
    LET r == read_current_conversation(store)
    IN  IF ~r.ok THEN Returned("Err", "read", r.store)
        ELSE Returned("Ok", "write", write_conversation(
                 r.store, add_workspace_contexts(r.conversation, paths)))

\* handle_remove_workspace_contexts
handle_remove_workspace_contexts(store, paths) ==
    LET r == read_current_conversation(store)
    IN  IF ~r.ok THEN Returned("Err", "read", r.store)
        ELSE Returned("Ok", "write", write_conversation(
                 r.store, remove_workspace_contexts(r.conversation, paths)))

\* CliCmd::execute, Self::Clear
execute_Clear(store) ==
    LET r == read_current_conversation(store)
    IN  IF ~r.ok THEN Returned("Err", "read", r.store)
        ELSE Returned("Ok", "write", write_conversation(r.store, clear(r.conversation)))

\* CliCmd::execute, Self::NewConversation
execute_NewConversation(store, conversation_id) ==
    LET r == create_conversation(store, conversation_id)
    IN  Returned(IF r.ok THEN "Ok" ELSE "Err", "create", r.store)

\* CliCmd::execute, Self::ListWorkspaceContext and Self::History: the current
\* conversation is read and shown.
execute_ListWorkspaceContext(store) ==
    LET r == read_current_conversation(store)
    IN  Returned(IF r.ok THEN "Ok" ELSE "Err", "read", r.store)

\* for chunk_result in query_response { let chunk = chunk_result?; ... } from
\* the k-th chunk result on: an Err ends the loop and the handler.
RECURSIVE stream_loop(_, _, _, _)
stream_loop(chunk_results, k, full, line) ==
    IF k > Len(chunk_results)
        THEN [ok |-> TRUE, full_content |-> full, current_line |-> line]
    ELSE IF ~chunk_results[k].ok
        THEN [ok |-> FALSE, full_content |-> full, current_line |-> line]
    ELSE LET r == chars_loop(chunk_results[k].chunk, full, line)
         IN  stream_loop(chunk_results, k + 1, r.full_content, r.current_line)

\* handle_query writing the conversation as soon as the user message is added.
handle_query_writing_user_message(store, query, order, fetchable, generated, chunk_results) ==
    LET r == read_current_conversation(store)
        asked == add_user_message(r.conversation, query, order, fetchable)
        stream == stream_loop(chunk_results, 1, <<>>, <<>>)
        asked_store == write_conversation(r.store, asked.conversation)
    IN  IF ~r.ok THEN Returned("Err", "read", r.store)
        ELSE IF asked.result = "Err" THEN Returned("Err", "add_user_message", r.store)
        ELSE IF ~generated THEN Returned("Err", "generate", asked_store)
        ELSE IF ~stream.ok THEN Returned("Err", "stream", asked_store)
        ELSE LET full == remaining_line(stream.full_content, stream.current_line)
             IN  Returned("Ok", "write", write_conversation(
                     asked_store,
                     add_assistant_message(asked.conversation,
                                           parse_message_parts(full))))

\* handle_query, from reading the current conversation to writing it: every
\* ? before db.write_conversation returns with nothing written.
handle_query(store, query, order, fetchable, generated, chunk_results) ==
    LET r == read_current_conversation(store)
        asked == add_user_message(r.conversation, query, order, fetchable)
        stream == stream_loop(chunk_results, 1, <<>>, <<>>)
    IN  IF ~r.ok THEN Returned("Err", "read", r.store)
        ELSE IF asked.result = "Err" THEN Returned("Err", "add_user_message", r.store)
        ELSE IF ~generated THEN Returned("Err", "generate", r.store)
        ELSE IF ~stream.ok THEN Returned("Err", "stream", r.store)
        ELSE LET full == remaining_line(stream.full_content, stream.current_line)
             IN  Returned("Ok", "write", write_conversation(
                     r.store,
                     add_assistant_message(asked.conversation,
                                           parse_message_parts(full))))

\* What the stream yields: a chunk of text or an error.
ChunkResults ==
    { [ok |-> TRUE, chunk |-> <<"Hello", NEWLINE>>],
      [ok |-> FALSE, chunk |-> <<>>] }

\* The streams the loop can tell apart: it does not ask for another chunk
\* result after an error.
Streams ==
    {stream \in UNION {[1..n -> ChunkResults] : n \in 0..MaxStreamChunks} :
        \A k \in 1..(Len(stream) - 1) : stream[k].ok}

\* The command that ran last: what it was given, the call it returned from
\* and the files it found.
Command(op, arg, stage) ==
    [op |-> op, arg |-> arg, stage |-> stage, files |-> files, current |-> current]

InitCli ==
    /\ conversation = Conversation_empty(CONVERSATION_ID)
    /\ result = "None"
    /\ last = [op |-> "empty", arg |-> {}, stage |-> "none", files |-> NoFiles,
               current |-> None]
    /\ db = Conversation_empty(CONVERSATION_ID)
    /\ Idle
    /\ EmptyStore
    /\ NoSegmenterRun

CliFrame ==
    UNCHANGED <<conversation, db, pc, query_response, full_content, current_line,
                delivered, split_marker, seg_pc, seg_text, seg_parts, seg_input>>

Ran(op, arg, returned) ==
    /\ files' = returned.store.files
    /\ current' = returned.store.current
    /\ result' = returned.result
    /\ last' = Command(op, arg, returned.stage)
    /\ CliFrame

CliNewConversation ==
    \E conversation_id \in NewIds \ DOMAIN files :
        Ran("new", conversation_id,
            execute_NewConversation(Store(files, current), conversation_id))

CliAddWorkspaceContext ==
    \E paths \in SUBSET RawContexts :
        Ran("add", paths, handle_add_workspace_contexts(Store(files, current), paths))

CliRemoveWorkspaceContext ==
    \E paths \in SUBSET RawContexts :
        Ran("remove", paths,
            handle_remove_workspace_contexts(Store(files, current), paths))

CliClear == Ran("clear", {}, execute_Clear(Store(files, current)))

CliListWorkspaceContext ==
    Ran("ls", {}, execute_ListWorkspaceContext(Store(files, current)))

CliQuery ==
    LET r == read_current_conversation(Store(files, current))
    IN  /\ r.ok => Len(r.conversation.messages) + 2 <= MaxStoredMessages
        /\ \E query \in Queries, fetchable \in SUBSET Contexts, generated \in BOOLEAN,
              order \in (IF r.ok THEN Orders(r.conversation.unseen_context)
                         ELSE {<<>>}) :
            \E chunk_results \in (IF generated THEN Streams ELSE {<<>>}) :
                Ran("query", query,
                    handle_query(Store(files, current), query, order, fetchable,
                                 generated, chunk_results))

NextCli ==
    \/ CliNewConversation
    \/ CliAddWorkspaceContext
    \/ CliRemoveWorkspaceContext
    \/ CliClear
    \/ CliListWorkspaceContext
    \/ CliQuery

SpecCli == InitCli /\ [][NextCli]_vars

----------------------------------------------------------------------------
\* Properties of the stored conversations (specification SpecCli)

\* user, assistant, user, assistant, ...: an even number of messages.
Alternates(messages) ==
    /\ Len(messages) % 2 = 0
    /\ \A i \in 1..Len(messages) :
          messages[i].role = IF i % 2 = 1 THEN USER_ROLE ELSE ASSISTANT_ROLE

\* C19: after any sequence of query, add, remove and clear commands, failed
\* queries included, the messages of the stored current conversation
\* alternate user, assistant, starting with user, and are even in number.
C19_StoredTurnsAlternate ==
    current # None =>
        /\ current[1] \in DOMAIN files
        /\ Alternates(files[current[1]].messages)

\* A query that failed in the middle of the stream, on a stored conversation
\* that holds an answered query.
C19_Witness ==
    /\ last.op = "query"
    /\ result = "Err"
    /\ last.stage = "stream"
    /\ current # None
    /\ Len(files[current[1]].messages) = 2

\* C20: when the new command returns Ok for an id, reading the current
\* conversation gives the empty conversation with that id, whether or not a
\* current conversation existed before; when it returns Err, the files and
\* the current symlink are what they were before the command.
C20_NewConversationIsCurrent ==
    last.op = "new" =>
        /\ result = "Ok" =>
              LET r == read_current_conversation(Store(files, current))
              IN  /\ r.ok
                  /\ r.conversation = Conversation_empty(last.arg)
        /\ result = "Err" =>
              /\ files = last.files
              /\ current = last.current

====
